---- MODULE Spec2Model ----
(***************************************************************************)
(* Model of web.py, a Streamlit page that browses a directory of one-page  *)
(* PDF files by the sections of a manifest (data_detail.txt).              *)
(*                                                                         *)
(* Text is modelled as it is in Python: a str is a sequence of characters  *)
(* (one-character strings), the manifest is the sequence of its lines.     *)
(* One run of main() is a script run of Streamlit: it starts with no local *)
(* variable bound, and only st.session_state survives from run to run.     *)
(***************************************************************************)
EXTENDS Integers, Sequences, FiniteSets, TLC

VARIABLES
    file,           \* data_detail.txt: NoFile, or the sequence of its lines
    session_state,  \* st.session_state: a function from its keys to values
    pc,             \* position of the current run of main()
    locals,         \* local variables of main(): each bound to a value by
                    \* an assignment, or not bound yet
    main_view,      \* what the main-view loop has put on the page, per visit
    sidebar,        \* what the sidebar loop has put in the sidebar, per visit
    widgets,        \* what the user has set the run's widgets to
    arg,            \* argument of a function called on its own
    ret             \* its return value, NotCalled before the call

vars == <<file, session_state, pc, locals, main_view, sidebar, widgets, arg, ret>>

(***************************************************************************)
(* Bounds of the model.                                                    *)
(***************************************************************************)
\* Longest manifest, in lines, given to main().
MaxLines == 2
\* Longest manifest, in lines, given to parse_data_detail() on its own.
MaxParseLines == 2
\* Section bounds given to get_page_numbers() on its own: -MaxBound..MaxBound.
MaxBound == 5

(***************************************************************************)
(* Values that are not text or numbers.                                    *)
(***************************************************************************)
\* An optional value: Python's None, or a value.
None    == [some |-> FALSE, v |-> <<>>]
Some(x) == [some |-> TRUE, v |-> x]

\* A path where open() raises FileNotFoundError, and a file of these lines.
NoFile          == [exists |-> FALSE, lines |-> <<>>]
FileOf(lines)   == [exists |-> TRUE, lines |-> lines]

\* The return value of a function called on its own.
NotCalled   == [called |-> FALSE, val |-> <<>>]
Returned(x) == [called |-> TRUE, val |-> x]

(***************************************************************************)
(* str methods.                                                            *)
(***************************************************************************)
Whitespace == {" ", "\t"}
Digit == {"0", "1", "2", "3", "4", "5", "6", "7", "8", "9"}

DigitValue(c) ==
    CASE c = "0" -> 0 [] c = "1" -> 1 [] c = "2" -> 2 [] c = "3" -> 3
      [] c = "4" -> 4 [] c = "5" -> 5 [] c = "6" -> 6 [] c = "7" -> 7
      [] c = "8" -> 8 [] c = "9" -> 9

RECURSIVE LStrip(_)
LStrip(s) ==
    IF s # <<>> /\ Head(s) \in Whitespace THEN LStrip(Tail(s)) ELSE s

RECURSIVE RStrip(_)
RStrip(s) ==
    IF s # <<>> /\ s[Len(s)] \in Whitespace
    THEN RStrip(SubSeq(s, 1, Len(s) - 1))
    ELSE s

\* str.strip()
Strip(s) == RStrip(LStrip(s))

\* str.split(sep) for a one-character sep: always at least one part.
RECURSIVE SplitFrom(_, _, _, _)
SplitFrom(s, sep, cur, parts) ==
    IF s = <<>> THEN Append(parts, cur)
    ELSE IF Head(s) = sep
         THEN SplitFrom(Tail(s), sep, <<>>, Append(parts, cur))
         ELSE SplitFrom(Tail(s), sep, Append(cur, Head(s)), parts)

Split(s, sep) == SplitFrom(s, sep, <<>>, <<>>)

\* str.startswith(prefix)
StartsWith(s, prefix) ==
    /\ Len(s) >= Len(prefix)
    /\ SubSeq(s, 1, Len(prefix)) = prefix

\* int(str): surrounding whitespace is dropped, one sign may lead, and the
\* rest is one or more decimal digits; anything else raises ValueError.
RECURSIVE DecimalFrom(_, _)
DecimalFrom(s, acc) ==
    IF s = <<>> THEN acc
    ELSE DecimalFrom(Tail(s), acc * 10 + DigitValue(Head(s)))

int(s) ==
    LET t      == Strip(s)
        signed == t # <<>> /\ Head(t) \in {"-", "+"}
        digits == IF signed THEN Tail(t) ELSE t
    IN  IF digits = <<>> \/ \E i \in 1..Len(digits) : digits[i] \notin Digit
        THEN [ok |-> FALSE, val |-> 0]
        ELSE [ok  |-> TRUE,
              val |-> IF signed /\ Head(t) = "-"
                      THEN 0 - DecimalFrom(digits, 0)
                      ELSE DecimalFrom(digits, 0)]

(***************************************************************************)
(* parse_data_detail                                                       *)
(***************************************************************************)
\* The record appended for a line, without the strip() of the name.
SectionRecordUnstripped(parts) ==
    [start |-> int(parts[1]).val,
     end   |-> int(parts[2]).val,
     name  |-> parts[3]]

\* The record appended for a line of at least three parts whose first two
\* convert.
SectionRecord(parts) ==
    [start |-> int(parts[1]).val,
     end   |-> int(parts[2]).val,
     name  |-> Strip(parts[3])]

\* The for loop over the lines, from line i on, with the records so far.
\* A ValueError of int() leaves the loop: the try encloses the whole loop,
\* and its handler reports the error and falls through to the return.
RECURSIVE ParseLoop(_, _, _)
ParseLoop(lines, i, acc) ==
    IF i > Len(lines) THEN acc
    ELSE LET line == Strip(lines[i]) IN
         IF line = <<>> THEN ParseLoop(lines, i + 1, acc)
         ELSE LET parts == Split(line, "#") IN
              IF Len(parts) < 3 THEN ParseLoop(lines, i + 1, acc)
              ELSE IF ~int(parts[1]).ok \/ ~int(parts[2]).ok THEN acc
              ELSE ParseLoop(lines, i + 1, Append(acc, SectionRecord(parts)))

parse_data_detail(f) ==
    IF ~f.exists THEN <<>> ELSE ParseLoop(f.lines, 1, <<>>)

(***************************************************************************)
(* get_page_numbers                                                        *)
(***************************************************************************)
\* list(range(a, b))
RECURSIVE range(_, _)
range(a, b) == IF a >= b THEN <<>> ELSE <<a>> \o range(a + 1, b)

\* The list without the section's last page.
get_page_numbers_exclusive(section) == range(section.start, section.end)

get_page_numbers(section) == range(section.start, section.end + 1)

(***************************************************************************)
(* The state between two runs of main(): no local is bound and nothing is  *)
(* on the page.                                                            *)
(***************************************************************************)
\* A local variable: not bound yet, or the value an assignment gave it.
Unbound  == [bound |-> FALSE, v |-> <<>>]
Bound(x) == [bound |-> TRUE, v |-> x]
NoLocals ==
    [sections |-> Unbound, main_sections |-> Unbound,
     selected_main_section |-> Unbound,
     selected_main_section_details |-> Unbound,
     sub_sections |-> Unbound, selected_sub_section_name |-> Unbound,
     selected_sub_section |-> Unbound, page_numbers |-> Unbound,
     total_pages |-> Unbound, show_text |-> Unbound]
NoOutput == <<>>
\* The selectboxes before the user has picked.
NoChoice == [main_index |-> 0, sub_index |-> 0]

(***************************************************************************)
(* parse_data_detail and get_page_numbers called on their own.             *)
(***************************************************************************)
Line3(f1, f2, name) == f1 \o <<"#">> \o f2 \o <<"#">> \o name

StartFields == {<<"1">>, <<"3">>, <<"x">>, <<"1", "0">>}
EndFields   == {<<"2">>, <<" ", "4", " ">>, <<>>}
NameFields  == {<<"a">>, <<" ", "b", " ">>}

ParseLines ==
    {Line3(f1, f2, n) : f1 \in StartFields, f2 \in EndFields, n \in NameFields}
    \cup {<<>>, <<" ">>}                                 \* blank lines
    \cup {<<"1", "#", "2">>, <<"a">>}                    \* fewer than 3 parts
    \cup {<<"1", "#", "2", "#", "a", "#", "c">>}         \* more than 3 parts

RECURSIVE SeqsUpTo(_, _)
SeqsUpTo(S, n) ==
    IF n = 0 THEN {<<>>}
    ELSE LET shorter == SeqsUpTo(S, n - 1)
         IN  shorter \cup {Append(s, x) : s \in shorter, x \in S}

ParseInputs == {NoFile} \cup {FileOf(ls) : ls \in SeqsUpTo(ParseLines, MaxParseLines)}

PageInputs ==
    {[start |-> a, end |-> b, name |-> <<"a">>] :
        a \in (0 - MaxBound)..MaxBound, b \in (0 - MaxBound)..MaxBound}

Idle ==
    /\ file = NoFile
    /\ session_state = <<>>
    /\ pc = "idle"
    /\ locals = NoLocals
    /\ main_view = NoOutput
    /\ sidebar = NoOutput
    /\ widgets = NoChoice

InitParse == Idle /\ arg \in ParseInputs /\ ret = NotCalled

CallParse ==
    /\ ~ret.called
    /\ ret' = Returned(parse_data_detail(arg))
    /\ UNCHANGED <<file, session_state, pc, locals, main_view, sidebar, widgets, arg>>

SpecParse == InitParse /\ [][CallParse]_vars

InitPages == Idle /\ arg \in PageInputs /\ ret = NotCalled

CallPages ==
    /\ ~ret.called
    /\ ret' = Returned(get_page_numbers(arg))
    /\ UNCHANGED <<file, session_state, pc, locals, main_view, sidebar, widgets, arg>>

SpecPages == InitPages /\ [][CallPages]_vars

(***************************************************************************)
(* main(): one script run, in steps.                                       *)
(***************************************************************************)
XAY_DUNG == <<"X", "Â", "Y", " ", "D", "Ự", "N", "G">>
NHUNG_QUOC_GIA ==
    <<"N", "H", "Ữ", "N", "G", " ", "Q", "U", "Ố", "C", " ", "G", "I", "A">>

\* The filter of main_sections.
IsMainSection(section) ==
    \/ StartsWith(section.name, NHUNG_QUOC_GIA)
    \/ StartsWith(section.name, XAY_DUNG)

\* The filter of sub_sections.
IsSubSection(section, main) ==
    section.start >= main.start /\ section.start <= main.end

\* [section['name'] for section in sections]
Names(sections) == [i \in 1..Len(sections) |-> sections[i].name]

\* st.selectbox(label, options) returns the option the user picked, and None
\* when there is no option. Choices are the picks the user has.
Choices(options) == IF options = <<>> THEN {0} ELSE 1..Len(options)
selectbox(options, i) == IF options = <<>> THEN None ELSE Some(options[i])

\* next((s for s in sections if s['name'] == name), None)
FirstNamed(sections, name) ==
    LET hits == {i \in 1..Len(sections) :
                    name.some /\ sections[i].name = name.v}
    IN  IF hits = {} THEN None
        ELSE Some(sections[CHOOSE i \in hits : \A j \in hits : i <= j])

IsBound(name) == locals[name].bound
Local(name) == locals[name].v

initialize_session_state(state, total_pages) ==
    IF "total_pages" \in DOMAIN state
    THEN state
    ELSE [key \in DOMAIN state \cup {"total_pages"} |->
            IF key = "total_pages" THEN total_pages ELSE state[key]]

\* A run is over when main() has returned or an exception has left it;
\* Streamlit then runs the script again from the top, on the user's next
\* action, with a fresh page and fresh locals.
RunOver == pc \in {"idle", "done", "no_section", "sub_not_found", "raised"}

\* Up to the return of "no valid section".
StartRun ==
    /\ RunOver
    /\ LET sections == parse_data_detail(file)
       IN  /\ locals' = [NoLocals EXCEPT !.sections = Bound(sections)]
           /\ pc' = IF sections = <<>> THEN "no_section" ELSE "select_main"
    /\ main_view' = NoOutput
    /\ sidebar' = NoOutput
    /\ widgets' = NoChoice
    /\ UNCHANGED <<file, session_state, arg, ret>>

\* The main selectbox, the lookup of the picked name, and the test of the
\* if: with no option the selectbox returns None, and None.startswith
\* raises AttributeError, which nothing catches.
SelectMain ==
    /\ pc = "select_main"
    /\ LET main_sections == SelectSeq(Local("sections"), IsMainSection)
       IN  \E i \in Choices(main_sections) :
               LET selected == selectbox(Names(main_sections), i)
               IN  /\ widgets' = [widgets EXCEPT !.main_index = i]
                   /\ locals' =
                        [locals EXCEPT
                            !.main_sections = Bound(main_sections),
                            !.selected_main_section = Bound(selected),
                            !.selected_main_section_details =
                                Bound(FirstNamed(Local("sections"), selected))]
                   /\ pc' = IF ~selected.some THEN "raised"
                            ELSE IF StartsWith(selected.v, XAY_DUNG)
                                 THEN "select_sub"
                                 ELSE "resolve_main"
    /\ UNCHANGED <<file, session_state, main_view, sidebar, arg, ret>>

\* The branch of a two-level main section: the sub-section selectbox, the
\* lookup of the picked name, the return when it finds nothing, and the
\* page numbers of the entry found.
SelectSub ==
    /\ pc = "select_sub"
    /\ LET main == Local("selected_main_section_details").v
           sub_sections ==
               SelectSeq(Local("sections"), LAMBDA s : IsSubSection(s, main))
       IN  \E i \in Choices(sub_sections) :
               LET name == selectbox(Names(sub_sections), i)
                   sub  == FirstNamed(Local("sections"), name)
               IN  /\ widgets' = [widgets EXCEPT !.sub_index = i]
                   /\ locals' =
                        [locals EXCEPT
                            !.sub_sections = Bound(sub_sections),
                            !.selected_sub_section_name = Bound(name),
                            !.selected_sub_section = Bound(sub),
                            !.page_numbers =
                                IF sub.some
                                THEN Bound(get_page_numbers(sub.v))
                                ELSE Unbound]
                   /\ pc' = IF sub.some THEN "options" ELSE "sub_not_found"
    /\ UNCHANGED <<file, session_state, main_view, sidebar, arg, ret>>

\* The else branch, of a one-level main section.
ResolveMain ==
    /\ pc = "resolve_main"
    /\ locals' =
         [locals EXCEPT
            !.page_numbers =
                Bound(get_page_numbers(Local("selected_main_section_details").v))]
    /\ pc' = "options"
    /\ UNCHANGED <<file, session_state, main_view, sidebar, widgets, arg, ret>>

\* total_pages, the session state, the display options and the header.
Options ==
    /\ pc = "options"
    /\ \E show_text \in BOOLEAN :
           locals' = [locals EXCEPT
                        !.total_pages = Bound(Len(Local("page_numbers"))),
                        !.show_text = Bound(show_text)]
    /\ session_state' =
           initialize_session_state(session_state, Len(Local("page_numbers")))
    /\ pc' = IF Local("page_numbers") = <<>> THEN "done" ELSE "main_view"
    /\ UNCHANGED <<file, main_view, sidebar, widgets, arg, ret>>

\* One iteration of the main-view loop, on the next page of page_numbers,
\* leaving the image or an error on the page; after the last page the
\* sidebar loop starts.
MainViewVisit(image, error) ==
    /\ main_view' = Append(main_view,
            [page  |-> Local("page_numbers")[Len(main_view) + 1],
             image |-> image,
             error |-> error])
    /\ pc' = IF Len(main_view) + 1 = Len(Local("page_numbers"))
             THEN "sidebar"
             ELSE "main_view"
    /\ UNCHANGED <<file, session_state, locals, sidebar, widgets, arg, ret>>

\* The loop left at the first missing file.
MainViewMissingBreaks ==
    /\ pc = "main_view"
    /\ main_view' = Append(main_view,
            [page  |-> Local("page_numbers")[Len(main_view) + 1],
             image |-> FALSE,
             error |-> "missing"])
    /\ pc' = "sidebar"
    /\ UNCHANGED <<file, session_state, locals, sidebar, widgets, arg, ret>>

\* page_NNN.pdf is not a file: the error, and continue.
MainViewMissing == pc = "main_view" /\ MainViewVisit(FALSE, "missing")

\* The render returns the PNG and st.image shows it.
MainViewImage == pc = "main_view" /\ MainViewVisit(TRUE, "none")

\* The render returns b"" (it catches its own errors): the error message.
MainViewNoImage == pc = "main_view" /\ MainViewVisit(FALSE, "no_image")

\* The try raises: the error message of the except.
MainViewRaises == pc = "main_view" /\ MainViewVisit(FALSE, "raised")

\* One iteration of the sidebar loop, on the next page of page_numbers.
SidebarVisit(shown) ==
    /\ sidebar' = Append(sidebar,
            [page      |-> Local("page_numbers")[Len(sidebar) + 1],
             found     |-> shown.found,
             readable  |-> shown.readable,
             error     |-> shown.error,
             text_area |-> shown.text_area,
             pdf       |-> shown.pdf,
             txt       |-> shown.txt])
    /\ pc' = IF Len(sidebar) + 1 = Len(Local("page_numbers"))
             THEN "done"
             ELSE "sidebar"
    /\ UNCHANGED <<file, session_state, locals, main_view, widgets, arg, ret>>

\* page_NNN.pdf is not a file: the error, and continue.
SidebarMissing ==
    /\ pc = "sidebar"
    /\ SidebarVisit([found |-> FALSE, readable |-> FALSE, error |-> "missing",
                     text_area |-> FALSE, pdf |-> "none", txt |-> "none"])

\* The file is there: the text (pymupdf_parse_page catches its own errors
\* and returns "" then, so the loop goes on alike), the text area, and the
\* two download columns. Each download is in a try of its own: the PDF
\* button needs the file read, and the name of the text file reads
\* selected_sub_section_name, which only the two-level branch binds; the
\* UnboundLocalError is caught as any Exception and reported.
SidebarDetails ==
    /\ pc = "sidebar"
    /\ \E readable \in BOOLEAN :
        SidebarVisit(
            [found |-> TRUE,
             readable |-> readable,
             error |-> "none",
             text_area |-> Local("show_text"),
             pdf |-> IF readable THEN "button" ELSE "error",
             txt |-> IF ~Local("show_text") THEN "none"
                     ELSE IF IsBound("selected_sub_section_name")
                          THEN "button"
                          ELSE "error"])

\* The manifests given to main(): a two-level section, a second one of the
\* same name, an entry that starts inside it, two one-level sections of one
\* name, and a two-level section whose start is after its end.
MainLines ==
    {Line3(<<"1">>, <<"1">>, XAY_DUNG),
     Line3(<<"1">>, <<"2">>, XAY_DUNG),
     Line3(<<"1">>, <<"2">>, <<"b">>),
     Line3(<<"1">>, <<"1">>, NHUNG_QUOC_GIA),
     Line3(<<"2">>, <<"3">>, NHUNG_QUOC_GIA),
     Line3(<<"3">>, <<"2">>, XAY_DUNG \o <<" ", "B">>)}

Manifests == {NoFile} \cup {FileOf(ls) : ls \in SeqsUpTo(MainLines, MaxLines)}

Init ==
    /\ file \in Manifests
    /\ session_state = <<>>
    /\ pc = "idle"
    /\ locals = NoLocals
    /\ main_view = NoOutput
    /\ sidebar = NoOutput
    /\ widgets = NoChoice
    /\ arg = NoFile
    /\ ret = NotCalled

Next ==
    \/ StartRun
    \/ SelectMain
    \/ SelectSub
    \/ ResolveMain
    \/ Options
    \/ MainViewMissing
    \/ MainViewImage
    \/ MainViewNoImage
    \/ MainViewRaises
    \/ SidebarMissing
    \/ SidebarDetails

Spec == Init /\ [][Next]_vars

(***************************************************************************)
(* What a manifest line says, read off the line's text by position, for    *)
(* the properties of the parser.                                           *)
(***************************************************************************)
IsBlank(l) == \A i \in 1..Len(l) : l[i] \in Whitespace

\* The text without its leading and trailing whitespace.
Trimmed(s) ==
    LET inked == {i \in 1..Len(s) : s[i] \notin Whitespace}
    IN  IF inked = {} THEN <<>>
        ELSE SubSeq(s, CHOOSE i \in inked : \A j \in inked : i <= j,
                       CHOOSE i \in inked : \A j \in inked : i >= j)

HashesOf(l) == {i \in 1..Len(l) : l[i] = "#"}

\* The position of the k-th '#' of the line; 0 before the first, and one
\* past the end for one the line does not hold.
HashAt(l, k) ==
    IF k = 0 THEN 0
    ELSE IF k > Cardinality(HashesOf(l)) THEN Len(l) + 1
    ELSE CHOOSE i \in HashesOf(l) :
            Cardinality({j \in HashesOf(l) : j < i}) = k - 1

\* The k-th '#'-separated field of the line.
FieldOf(l, k) == SubSeq(l, HashAt(l, k - 1) + 1, HashAt(l, k) - 1)
FieldCount(l) == Cardinality(HashesOf(l)) + 1

RECURSIVE Pow10(_)
Pow10(n) == IF n = 0 THEN 1 ELSE 10 * Pow10(n - 1)

RECURSIVE SumTo(_, _)
SumTo(f, n) == IF n = 0 THEN 0 ELSE f[n] + SumTo(f, n - 1)

\* The digits of a field that writes an integer, and the integer.
Unsigned(s) ==
    LET t == Trimmed(s)
    IN  IF t # <<>> /\ t[1] \in {"+", "-"} THEN SubSeq(t, 2, Len(t)) ELSE t

IsIntegerText(s) ==
    /\ Unsigned(s) # <<>>
    /\ \A i \in 1..Len(Unsigned(s)) : Unsigned(s)[i] \in Digit

IntegerOf(s) ==
    LET d == Unsigned(s)
        n == Len(d)
        magnitude == SumTo([i \in 1..n |-> DigitValue(d[i]) * Pow10(n - i)], n)
    IN  IF Trimmed(s)[1] = "-" THEN 0 - magnitude ELSE magnitude

\* A valid section definition: three fields or more, the first two integers.
ValidLine(l) ==
    /\ FieldCount(l) >= 3
    /\ IsIntegerText(FieldOf(l, 1))
    /\ IsIntegerText(FieldOf(l, 2))

RecordOfLine(l) ==
    [start |-> IntegerOf(FieldOf(l, 1)),
     end   |-> IntegerOf(FieldOf(l, 2)),
     name  |-> Trimmed(FieldOf(l, 3))]

\* One record per line, in order.
RecordsOf(ls) == [i \in 1..Len(ls) |-> RecordOfLine(ls[i])]

NonBlank(l) == ~IsBlank(l)

\* C5: every section record parse_data_detail returns, for any manifest,
\* has start <= end.
C5_StartAtMostEnd ==
    ret.called => \A i \in 1..Len(ret.val) : ret.val[i].start <= ret.val[i].end

\* C7: for a manifest whose every non-blank line has three fields or more
\* with integer first and second fields, parse_data_detail returns one
\* record per non-blank line, in file order, with start and end the values
\* of the first two fields and name the trimmed third field.
C7_WellFormedManifestParsed ==
    (/\ ret.called
     /\ arg.exists
     /\ \A i \in 1..Len(arg.lines) :
            NonBlank(arg.lines[i]) => ValidLine(arg.lines[i]))
    => ret.val = RecordsOf(SelectSeq(arg.lines, NonBlank))

\* C7's case: a well-formed manifest with a blank line and a line with
\* whitespace around its fields has been parsed.
C7_Witness ==
    /\ ret.called
    /\ arg = FileOf(<<<<" ">>,
                      Line3(<<"1", "0">>, <<" ", "4", " ">>, <<" ", "b", " ">>)>>)
    /\ ret.val = <<[start |-> 10, end |-> 4, name |-> <<"b">>]>>

\* C8: a line that is not a valid section definition yields no record and
\* every valid line before and after it yields its record: the result is
\* the parse of the manifest without its invalid lines.
C8_InvalidLinesSkipped ==
    (ret.called /\ arg.exists)
    => ret.val = RecordsOf(SelectSeq(arg.lines, ValidLine))

\* C1: for a section with start <= end, get_page_numbers returns start,
\* start + 1, ..., end in ascending order, each once (end - start + 1 pages);
\* for start > end it returns the empty list.
C1_PageNumbersAreTheRange ==
    ret.called =>
        IF arg.start <= arg.end
        THEN /\ Len(ret.val) = arg.end - arg.start + 1
             /\ \A i \in 1..Len(ret.val) : ret.val[i] = arg.start + i - 1
        ELSE ret.val = <<>>

\* C1's case: a section of several pages has been resolved.
C1_Witness ==
    /\ ret.called
    /\ arg.start = 2 /\ arg.end = 4
    /\ ret.val = <<2, 3, 4>>

(***************************************************************************)
(* Properties of a run of main().                                          *)
(***************************************************************************)
\* start, start + 1, ..., end of a manifest entry, by position.
PagesOf(section) ==
    [i \in 1..(IF section.start <= section.end
               THEN section.end - section.start + 1
               ELSE 0) |-> section.start + i - 1]

\* The pages a loop has visited, in the order of the visits.
Visited(visits) == [k \in 1..Len(visits) |-> visits[k].page]

\* The run has picked a main section, and it is a two-level one.
MainPicked == IsBound("selected_main_section") /\ Local("selected_main_section").some
TwoLevel == MainPicked /\ StartsWith(Local("selected_main_section").v, XAY_DUNG)

\* The entries the user picked in the two selectboxes.
PickedMain == Local("main_sections")[widgets.main_index]
PickedSub  == Local("sub_sections")[widgets.sub_index]

Resolved == IsBound("page_numbers")
InRange(p, section) == section.start <= p /\ p <= section.end

\* C2: the resolved page numbers are start..end of the entry the user picked
\* in the sub-section list when the main section is two-level, and of the
\* picked main entry when it is one-level, also when entries share a name.
C2_PickedEntryResolved ==
    Resolved =>
        Local("page_numbers") =
            IF TwoLevel THEN PagesOf(PickedSub) ELSE PagesOf(PickedMain)

C4_DownloadsOffered ==
    \A k \in 1..Len(sidebar) :
        (sidebar[k].found /\ sidebar[k].readable) =>
            /\ sidebar[k].pdf = "button"
            /\ Local("show_text") => sidebar[k].txt = "button"

\* C6: at the end of every run that resolved a section, the session's
\* total_pages is the number of pages of the section of that run.
C6_TotalPagesOfThisRun ==
    pc = "done" => session_state.total_pages = Len(Local("page_numbers"))

\* C9: no run ends in an unhandled error: with no section parsed it reports
\* "no valid section" and renders nothing, and with a section parsed it
\* picks a main section, resolves its pages and runs the two loops.
C9_RunEndsHandled ==
    /\ pc # "raised"
    /\ pc \in {"done", "no_section", "sub_not_found"} =>
          IF Local("sections") = <<>>
          THEN pc = "no_section" /\ main_view = NoOutput /\ sidebar = NoOutput
          ELSE pc = "done"

\* C10: under a two-level main section, every offered sub-section starts
\* inside the main section's [start, end], and every page resolved and
\* shown lies inside it.
C10_PagesInsideMainSection ==
    TwoLevel =>
        /\ IsBound("sub_sections") =>
              \A k \in 1..Len(Local("sub_sections")) :
                  InRange(Local("sub_sections")[k].start, PickedMain)
        /\ Resolved =>
              \A k \in 1..Len(Local("page_numbers")) :
                  InRange(Local("page_numbers")[k], PickedMain)
        /\ \A k \in 1..Len(main_view) : InRange(main_view[k].page, PickedMain)

====
